---- MODULE Spec2Model ----
(***************************************************************************)
(* School Management API (src/main.py, src/schemas.py): the session        *)
(* mechanism, the auth guard, the generic CRUD routes parameterised by a   *)
(* collection name and the keyed page routes, over a document store.       *)
(*                                                                         *)
(* The store (pymongo) is the external collaborator: db[c] is the set of   *)
(* documents of collection c, each store call (find, insert_one,           *)
(* update_one, delete_one) is atomic.  Handlers run request-parallel in a  *)
(* thread pool: the Depends(ensure_admin) lookup and the handler body are  *)
(* two store calls, so an admin request is two steps, and other requests   *)
(* come between them.  Every step hands its outcome over (Send) before the *)
(* next store call is looked at; the store calls interleave freely.        *)
(***************************************************************************)
EXTENDS Naturals, Sequences, FiniteSets, Bags, TLC

\* ------------------------------------------------------------------ bounds
MaxLogins == 2      \* successful logins (tokens drawn from os.urandom)
MaxDocs   == 4      \* identifiers the store assigns, all collections together
MaxTime   == 1      \* clock readings 0 .. MaxTime
Workers   == 2      \* admin requests in flight between guard and body
IdLen     == 2      \* hexadecimal digits of an identifier string (24 in bson)

\* ------------------------------------------------------------- value space
Null    == "<None>"     \* JSON null / Python None
NoToken == 0            \* the Auth-Token header absent or empty (both falsy)

\* An e-mail string, kept as its lower-case text and the set of positions
\* written in upper case; str.lower() clears the set.
MASTER_ADMIN_EMAIL == [text |-> "caproktaroy03@gmail.com", caps |-> {}]

lower(e) == [text |-> e.text, caps |-> {}]

Emails ==
    { MASTER_ADMIN_EMAIL,
      [text |-> "caproktaroy03@gmail.com", caps |-> {1}],
      [text |-> "admin@example.com", caps |-> {}] }

\* Tokens: the i-th value drawn from os.urandom(24).hex() is i (draws of 192
\* random bits are taken to be pairwise distinct).  A client may send any of
\* them, also before a login has returned it.
Tokens == 1 .. MaxLogins

\* ------------------------------------------------------------------ schemas
schema_map ==
    [ newsarticle |-> [required |-> {"title", "content"},
                       optional |-> {"author", "tags", "cover_image", "published_at"}],
      announcement |-> [required |-> {"title", "content"},
                        optional |-> {"start_date", "end_date", "audience"}],
      galleryitem |-> [required |-> {"image_url"},
                       optional |-> {"title", "category", "caption"}],
      admissioninfo |-> [required |-> {"year", "description"},
                         optional |-> {"requirements", "important_dates", "registration_link"}],
      academiccalendarevent |-> [required |-> {"title", "date"},
                                 optional |-> {"description", "category"}],
      scheduleentry |-> [required |-> {"type"},
                         optional |-> {"day", "time", "subject", "class_name", "teacher", "notes"}],
      orgnode |-> [required |-> {"title"},
                   optional |-> {"name", "parent_id", "order"}],
      staff |-> [required |-> {"name", "role"},
                 optional |-> {"email", "phone", "photo_url", "department"}],
      extracurricular |-> [required |-> {"name"},
                           optional |-> {"coach", "description", "schedule", "photo_url"}],
      schoolpage |-> [required |-> {"key"},
                      optional |-> {"title", "content"}],
      achievement |-> [required |-> {"title"},
                       optional |-> {"description", "date", "images"}] ]

ScheduleTypes == {"pelajaran", "ujian", "piket_guru"}
PageKeys == {"sejarah", "visi_misi", "fasilitas", "kontak_alamat"}

\* The Literal[...] fields of a schema and their closed sets.
Literals(c) ==
    IF c = "scheduleentry" THEN [type |-> ScheduleTypes]
    ELSE IF c = "schoolpage" THEN [key |-> PageKeys]
    ELSE <<>>

\* The default of an optional field.
Default(c, f) == IF c = "orgnode" /\ f = "order" THEN 0 ELSE Null

\* Model(**data) succeeds: required fields present and not None, Literal
\* fields inside their set; fields the schema does not name are ignored.
Validates(c, data) ==
    /\ \A f \in schema_map[c].required : f \in DOMAIN data /\ data[f] # Null
    /\ \A f \in DOMAIN Literals(c) :
          f \in DOMAIN data => data[f] \in Literals(c)[f]

\* model.model_dump(): every schema field, the given value or the default.
model_dump(c, data) ==
    [f \in schema_map[c].required \cup schema_map[c].optional |->
        IF f \in DOMAIN data THEN data[f] ELSE Default(c, f)]

\* ------------------------------------------------------------------ identifiers
\* An identifier string is a sequence of characters.  ObjectId(s) accepts
\* exactly IdLen hexadecimal digits and str() writes them back.
HexDigits == <<"0", "1", "2", "3", "4", "5", "6", "7",
               "8", "9", "a", "b", "c", "d", "e", "f">>

HexVal(ch) == (CHOOSE i \in 1 .. 16 : HexDigits[i] = ch) - 1

RECURSIVE Pow16(_)
Pow16(n) == IF n = 0 THEN 1 ELSE 16 * Pow16(n - 1)

RECURSIVE HexNum(_)
HexNum(s) ==
    IF s = <<>> THEN 0
    ELSE 16 * HexNum(SubSeq(s, 1, Len(s) - 1)) + HexVal(s[Len(s)])

\* str(result.inserted_id), str(it["_id"])
str(oid) == [i \in 1 .. IdLen |-> HexDigits[((oid \div Pow16(IdLen - i)) % 16) + 1]]

\* obj_id: the ObjectId, or the HTTPException(400) of the except branch.
obj_id(id_str) ==
    IF /\ Len(id_str) = IdLen
       /\ \A i \in 1 .. Len(id_str) : \E j \in 1 .. 16 : HexDigits[j] = id_str[i]
    THEN [ok |-> TRUE, oid |-> HexNum(id_str)]
    ELSE [ok |-> FALSE, oid |-> 0]

\* ------------------------------------------------------------------ state
VARIABLES
    db,         \* db[c]: the documents of collection c
    now,        \* datetime.now(timezone.utc)
    nextId,     \* the next ObjectId the store assigns
    nextTok,    \* the next value os.urandom yields
    pending,    \* the admin handlers let in by the guard and not yet run: a bag of
                \* the e-mails ensure_admin gave them
    resp        \* what the step just taken hands back: a response on its way to the
                \* client or, from the guard, a request let in; NoResp once sent

vars == <<db, now, nextId, nextTok, pending, resp>>

\* Collection names the generic routes are called with: a content type, the
\* session collection and a name that is no collection at all.
Names == {"schoolpage", "session", "nosuch"}

\* Request bodies ("data" of Document) sent for a collection.
Payloads(c) ==
    IF c = "session" THEN { [active |-> TRUE] }
    ELSE IF c = "schoolpage" THEN { [key |-> "sejarah"], [key |-> "profil"] }
    ELSE { [key |-> "sejarah"] }

\* Request bodies of the page route.
PagePayloads == { [key |-> "sejarah"] }

\* Path parameters of the page routes.
Keys == {"sejarah", "profil"}

\* Identifier strings a client sends: those of the identifiers assigned so
\* far (of any collection, deleted or not), the one assigned next, a string
\* with a character that is no digit and one that is too short.
IdStrings == { str(i) : i \in 1 .. nextId } \cup { <<"z", "z">>, <<"1">> }

\* Collections update and delete requests are addressed to.
Stored == {"schoolpage", "session"}

PublicLimit == 50
AdminLimit == 200

AdminOps == {"admin_list", "admin_create", "admin_update", "admin_delete", "set_page"}

NoEmail == [text |-> "", caps |-> {}]

\* A response: the route, the status, what the request carried and what the
\* body holds (items: the documents returned; issued: the token returned).
NoResp ==
    [op |-> "none", status |-> 0, detail |-> "", token |-> NoToken, email |-> NoEmail,
     coll |-> "", id |-> <<>>, items |-> <<>>, issued |-> NoToken]

\* The outcome of the last step has been handed over: resp holds the outcome
\* of one step only.
Ready == resp = NoResp

\* ------------------------------------------------------------------ store
\* A document matches an equality filter.
Matches(d, q) == \A f \in DOMAIN q : f \in DOMAIN d /\ d[f] = q[f]

find(docs, q) == { d \in docs : Matches(d, q) }

\* {"$set": s} applied to a document.
Set(d, s) == [f \in DOMAIN d \cup DOMAIN s |-> IF f \in DOMAIN s THEN s[f] ELSE d[f]]

\* update_one(q, {"$set": s}): the collections that can result; one matching
\* document is changed, whichever the store finds first.
update_one(docs, q, s) ==
    IF find(docs, q) = {} THEN {docs}
    ELSE { (docs \ {d}) \cup {Set(d, s)} : d \in find(docs, q) }

\* delete_one(q): likewise.
delete_one(docs, q) ==
    IF find(docs, q) = {} THEN {docs}
    ELSE { docs \ {d} : d \in find(docs, q) }

\* insert_one(doc) with the identifier the store assigns.
insert_one(docs, doc, oid) == docs \cup { ("_id" :> oid) @@ doc }

Min(a, b) == IF a < b THEN a ELSE b

\* find({}).sort("created_at", -1).limit(limit): the sequences that can come
\* back; documents of equal created_at come in any order.
Listings(docs, limit) ==
    LET n == Min(limit, Cardinality(docs)) IN
    { s \in [1 .. n -> docs] :
        /\ \A i, j \in 1 .. n : i < j =>
              /\ s[i] # s[j]
              /\ s[i].created_at >= s[j].created_at
        /\ \A d \in docs : (\A i \in 1 .. n : s[i] # d) =>
              \A i \in 1 .. n : s[i].created_at >= d.created_at }

\* it["_id"] = str(it["_id"])
Shown(d) == [f \in DOMAIN d |-> IF f = "_id" THEN str(d[f]) ELSE d[f]]

\* ------------------------------------------------------------------ start
Init ==
    /\ db = [c \in Names \cup {"user"} |-> {}]
    /\ now = 0
    /\ nextId = 1
    /\ nextTok = 1
    /\ pending = EmptyBag
    /\ resp = NoResp

\* The clock moves on between two requests.
Tick ==
    /\ Ready
    /\ now < MaxTime
    /\ now' = now + 1
    /\ UNCHANGED <<db, nextId, nextTok, pending, resp>>

\* ------------------------------------------------------------------ sessions
\* login without the master-address test of line 58.
login_open(e) ==
    LET email == lower(e)
        users == find(db["user"], [email |-> email])
        upsert == users = {}
        set == [email |-> email, name |-> "Admin Master", role |-> "admin",
                updated_at |-> now]
        sid == IF upsert THEN nextId + 1 ELSE nextId
        session == [email |-> email, token |-> nextTok, active |-> TRUE,
                    created_at |-> now, updated_at |-> now]
    IN  /\ Ready
        /\ nextTok <= MaxLogins
        /\ sid <= MaxDocs
        /\ \E u \in (IF upsert
                     THEN { insert_one(db["user"], set @@ [created_at |-> now], nextId) }
                     ELSE update_one(db["user"], [email |-> email], set)) :
              db' = [db EXCEPT !["user"] = u,
                               !["session"] = insert_one(@, session, sid)]
        /\ nextId' = sid + 1
        /\ nextTok' = nextTok + 1
        /\ resp' = [NoResp EXCEPT !.op = "login", !.status = 200, !.email = e,
                                  !.issued = nextTok]
        /\ UNCHANGED <<now, pending>>

\* POST /auth/login
login(e) ==
    LET email == lower(e) IN
    IF email # MASTER_ADMIN_EMAIL
    THEN /\ Ready
         /\ resp' = [NoResp EXCEPT !.op = "login", !.status = 403, !.email = e,
                                   !.detail = "Anda tidak memiliki akses admin"]
         /\ UNCHANGED <<db, now, nextId, nextTok, pending>>
    ELSE LET users == find(db["user"], [email |-> email])
             upsert == users = {}
             set == [email |-> email, name |-> "Admin Master", role |-> "admin",
                     updated_at |-> now]
             sid == IF upsert THEN nextId + 1 ELSE nextId
             session == [email |-> email, token |-> nextTok, active |-> TRUE,
                         created_at |-> now, updated_at |-> now]
         IN  /\ Ready
             /\ nextTok <= MaxLogins
             /\ sid <= MaxDocs
             /\ \E u \in (IF upsert
                          THEN { insert_one(db["user"], set @@ [created_at |-> now], nextId) }
                          ELSE update_one(db["user"], [email |-> email], set)) :
                   db' = [db EXCEPT !["user"] = u,
                                    !["session"] = insert_one(@, session, sid)]
             /\ nextId' = sid + 1
             /\ nextTok' = nextTok + 1
             /\ resp' = [NoResp EXCEPT !.op = "login", !.status = 200, !.email = e,
                                       !.issued = nextTok]
             /\ UNCHANGED <<now, pending>>

\* POST /auth/logout
logout(tok) ==
    /\ Ready
    /\ IF tok = NoToken
       THEN /\ resp' = [NoResp EXCEPT !.op = "logout", !.status = 200, !.detail = "ok"]
            /\ db' = db
       ELSE /\ \E s \in update_one(db["session"], [token |-> tok],
                                   [active |-> FALSE, updated_at |-> now]) :
                  db' = [db EXCEPT !["session"] = s]
            /\ resp' = [NoResp EXCEPT !.op = "logout", !.status = 200, !.token = tok,
                                      !.detail = "logged out"]
    /\ UNCHANGED <<now, nextId, nextTok, pending>>

\* ensure_admin looking the session up by token alone, active or not.
ensure_admin_any(tok) ==
    /\ Ready
    /\ BagCardinality(pending) < Workers
    /\ IF tok = NoToken
       THEN /\ resp' = [NoResp EXCEPT !.op = "ensure_admin", !.status = 401,
                                      !.detail = "Missing auth token"]
            /\ pending' = pending
       ELSE IF find(db["session"], [token |-> tok]) = {}
       THEN /\ resp' = [NoResp EXCEPT !.op = "ensure_admin", !.status = 401, !.token = tok,
                                      !.detail = "Invalid or expired token"]
            /\ pending' = pending
       ELSE /\ \E session \in find(db["session"], [token |-> tok]) :
                  pending' = pending (+) SetToBag({session.email})
            /\ resp' = [NoResp EXCEPT !.op = "ensure_admin", !.token = tok]
    /\ UNCHANGED <<db, now, nextId, nextTok>>

\* Depends(ensure_admin), the guard of the five admin routes.
ensure_admin(tok) ==
    /\ Ready
    /\ BagCardinality(pending) < Workers
    /\ IF tok = NoToken
       THEN /\ resp' = [NoResp EXCEPT !.op = "ensure_admin", !.status = 401,
                                      !.detail = "Missing auth token"]
            /\ pending' = pending
       ELSE IF find(db["session"], [token |-> tok, active |-> TRUE]) = {}
       THEN /\ resp' = [NoResp EXCEPT !.op = "ensure_admin", !.status = 401, !.token = tok,
                                      !.detail = "Invalid or expired token"]
            /\ pending' = pending
       ELSE /\ \E session \in find(db["session"], [token |-> tok, active |-> TRUE]) :
                  pending' = pending (+) SetToBag({session.email})
            /\ resp' = [NoResp EXCEPT !.op = "ensure_admin", !.token = tok]
    /\ UNCHANGED <<db, now, nextId, nextTok>>

\* ------------------------------------------------------------------ CRUD
\* A handler the guard let in runs to its end.
Run == Ready /\ \E email \in BagToSet(pending) : pending' = pending (-) SetToBag({email})

\* GET /public/{collection}
public_list(c, limit) ==
    /\ Ready
    /\ \E s \in Listings(db[c], limit) :
          resp' = [NoResp EXCEPT !.op = "public_list", !.status = 200, !.coll = c,
                                 !.items = [i \in DOMAIN s |-> Shown(s[i])]]
    /\ UNCHANGED <<db, now, nextId, nextTok, pending>>

\* GET /admin/{collection}
admin_list(c, limit) ==
    /\ Run
    /\ \E s \in Listings(db[c], limit) :
          resp' = [NoResp EXCEPT !.op = "admin_list", !.status = 200, !.coll = c,
                                 !.items = [i \in DOMAIN s |-> Shown(s[i])]]
    /\ UNCHANGED <<db, now, nextId, nextTok>>

\* create_item(collection, data): the response and the store after it.
create_item(c, data, r) ==
    IF c \notin DOMAIN schema_map
    THEN /\ resp' = [r EXCEPT !.status = 400, !.detail = "Unknown collection"]
         /\ UNCHANGED <<db, nextId>>
    ELSE IF ~Validates(c, data)
    THEN \* pydantic's ValidationError leaves the handler uncaught
         /\ resp' = [r EXCEPT !.status = 500, !.detail = "ValidationError"]
         /\ UNCHANGED <<db, nextId>>
    ELSE LET doc == model_dump(c, data) @@ [created_at |-> now, updated_at |-> now]
         IN  /\ nextId <= MaxDocs
             /\ db' = [db EXCEPT ![c] = insert_one(@, doc, nextId)]
             /\ nextId' = nextId + 1
             /\ resp' = [r EXCEPT !.status = 200,
                                  !.items = << [id |-> str(nextId)] >>]

\* POST /admin/{collection}
admin_create(c, data) ==
    /\ Run
    /\ create_item(c, data, [NoResp EXCEPT !.op = "admin_create", !.coll = c])
    /\ UNCHANGED <<now, nextTok>>

\* PUT /admin/{collection}/{item_id}
admin_update(c, item_id, payload) ==
    LET data == Set(payload, [updated_at |-> now])
        oid == obj_id(item_id)
        r == [NoResp EXCEPT !.op = "admin_update", !.coll = c, !.id = item_id]
    IN  /\ Run
        /\ IF ~oid.ok
           THEN /\ resp' = [r EXCEPT !.status = 400, !.detail = "Invalid id"]
                /\ db' = db
           ELSE IF find(db[c], "_id" :> oid.oid) = {}
           THEN /\ resp' = [r EXCEPT !.status = 404, !.detail = "Not found"]
                /\ db' = db
           ELSE /\ \E u \in update_one(db[c], "_id" :> oid.oid, data) :
                      db' = [db EXCEPT ![c] = u]
                /\ resp' = [r EXCEPT !.status = 200, !.detail = "updated"]
        /\ UNCHANGED <<now, nextId, nextTok>>

\* admin_delete without the deleted_count test of line 164.
admin_delete_unchecked(c, item_id) ==
    LET oid == obj_id(item_id)
        r == [NoResp EXCEPT !.op = "admin_delete", !.coll = c, !.id = item_id]
    IN  /\ Run
        /\ IF ~oid.ok
           THEN /\ resp' = [r EXCEPT !.status = 400, !.detail = "Invalid id"]
                /\ db' = db
           ELSE /\ \E u \in delete_one(db[c], "_id" :> oid.oid) :
                      db' = [db EXCEPT ![c] = u]
                /\ resp' = [r EXCEPT !.status = 200, !.detail = "deleted"]
        /\ UNCHANGED <<now, nextId, nextTok>>

\* DELETE /admin/{collection}/{item_id}
admin_delete(c, item_id) ==
    LET oid == obj_id(item_id)
        r == [NoResp EXCEPT !.op = "admin_delete", !.coll = c, !.id = item_id]
    IN  /\ Run
        /\ IF ~oid.ok
           THEN /\ resp' = [r EXCEPT !.status = 400, !.detail = "Invalid id"]
                /\ db' = db
           ELSE IF find(db[c], "_id" :> oid.oid) = {}
           THEN /\ resp' = [r EXCEPT !.status = 404, !.detail = "Not found"]
                /\ db' = db
           ELSE /\ \E u \in delete_one(db[c], "_id" :> oid.oid) :
                      db' = [db EXCEPT ![c] = u]
                /\ resp' = [r EXCEPT !.status = 200, !.detail = "deleted"]
        /\ UNCHANGED <<now, nextId, nextTok>>

\* ------------------------------------------------------------------ pages
\* GET /public/page/{key}
get_page(key) ==
    /\ Ready
    /\ IF find(db["schoolpage"], [key |-> key]) = {}
       THEN resp' = [NoResp EXCEPT !.op = "get_page", !.status = 200,
                                   !.items = << [key |-> key, title |-> "", content |-> ""] >>]
       ELSE \E doc \in find(db["schoolpage"], [key |-> key]) :
               resp' = [NoResp EXCEPT !.op = "get_page", !.status = 200,
                                      !.items = << Shown(doc) >>]
    /\ UNCHANGED <<db, now, nextId, nextTok, pending>>

\* POST /admin/page/{key}
set_page(key, payload) ==
    LET data == Set(payload, [key |-> key, updated_at |-> now])
        pages == db["schoolpage"]
    IN  /\ Run
        /\ IF find(pages, [key |-> key]) = {}
           THEN \* upsert: the filter's fields, $set and $setOnInsert
                /\ nextId <= MaxDocs
                /\ db' = [db EXCEPT !["schoolpage"] =
                            insert_one(@, data @@ [created_at |-> now], nextId)]
                /\ nextId' = nextId + 1
           ELSE /\ \E u \in update_one(pages, [key |-> key], data) :
                      db' = [db EXCEPT !["schoolpage"] = u]
                /\ nextId' = nextId
        /\ resp' = [NoResp EXCEPT !.op = "set_page", !.status = 200, !.detail = "saved"]
        /\ UNCHANGED <<now, nextTok>>

\* ------------------------------------------------------------------ system
\* The outcome of the step just taken is handed over: the response goes to
\* the client, the request let in goes to its handler.
Send ==
    /\ resp # NoResp
    /\ resp' = NoResp
    /\ UNCHANGED <<db, now, nextId, nextTok, pending>>

Next ==
    \/ Send
    \/ Tick
    \/ \E e \in Emails : login(e)
    \/ \E tok \in Tokens \cup {NoToken} : logout(tok)
    \/ \E tok \in Tokens \cup {NoToken} : ensure_admin(tok)
    \/ \E c \in Names, limit \in {1, PublicLimit} : public_list(c, limit)
    \/ \E c \in Names, limit \in {1, AdminLimit} : admin_list(c, limit)
    \/ \E c \in Names : \E data \in Payloads(c) : admin_create(c, data)
    \/ \E c \in Stored, i \in IdStrings : \E data \in Payloads(c) : admin_update(c, i, data)
    \/ \E c \in Stored, i \in IdStrings : admin_delete(c, i)
    \/ \E key \in Keys : get_page(key)
    \/ \E key \in Keys, data \in PagePayloads : set_page(key, data)

Spec == Init /\ [][Next]_vars

\* ------------------------------------------------------------------ properties
\* Some session document carries the token and is active.
HasActiveSession(tok) ==
    tok # NoToken /\ \E s \in db["session"] : s.token = tok /\ s.active

\* The identifier has been assigned and no document of collection c carries it.
GoneIn(store, next, c, oid) == oid < next /\ \A d \in store[c] : d["_id"] # oid

Gone(c, oid) == GoneIn(db, nextId, c, oid)

Present(c, oid) == \E d \in db[c] : d["_id"] = oid

\* The step runs an admin handler to its end; resp' is its response.
Ran == BagCardinality(pending') = BagCardinality(pending) - 1 /\ pending # EmptyBag

\* C1: an admin request whose token is missing, or matches no session with
\* active = true, is answered 401 by the guard and changes neither the store
\* nor the set of handlers let in; and an admin route answers or writes only by
\* running a handler the guard has let in.
C1_GuardRejects ==
    [][ /\ (resp'.op = "ensure_admin" /\ ~HasActiveSession(resp'.token))
              => (resp'.status = 401 /\ db' = db /\ pending' = pending)
        /\ (resp'.status = 401) => (resp'.op = "ensure_admin" /\ db' = db)
        /\ (resp'.op \in AdminOps /\ (resp' # resp \/ db' # db)) => Ran ]_vars

\* A request with the token of a session that logout has deactivated was
\* refused, in a store that holds content.
C1_Witness ==
    /\ resp.op = "ensure_admin" /\ resp.status = 401 /\ resp.token # NoToken
    /\ \E s \in db["session"] : s.token = resp.token /\ ~s.active
    /\ db["schoolpage"] # {}

\* C2 as stated: create and list with a name that is no content type answer
\* 400 Unknown collection.
C2_UnknownCollection ==
    (resp.op \in {"public_list", "admin_list", "admin_create"}
        /\ resp.coll \notin DOMAIN schema_map)
    => resp.status = 400

\* C3 as stated: the schoolpage collection holds at most one document per key.
C3_OnePagePerKey ==
    \A d1, d2 \in db["schoolpage"] : d1.key = d2.key => d1 = d2

\* A stored document has the required fields of its schema, none of them
\* None, and its Literal fields inside their sets.
Conforms(c, d) ==
    /\ \A f \in schema_map[c].required : f \in DOMAIN d /\ d[f] # Null
    /\ \A f \in DOMAIN Literals(c) : f \in DOMAIN d => d[f] \in Literals(c)[f]

\* C4 as stated: every document of a content collection conforms to the
\* schema of its collection.
C4_StoredConform ==
    \A c \in DOMAIN schema_map \cap DOMAIN db : \A d \in db[c] : Conforms(c, d)

\* C5 as stated: a session is never removed, keeps its e-mail and token, and
\* never goes from inactive back to active.
C5_SessionsKept ==
    [][ \A s \in db["session"] : \E t \in db'["session"] :
            /\ t["_id"] = s["_id"] /\ t.email = s.email /\ t.token = s.token
            /\ (~s.active => ~t.active) ]_vars

\* C6 as stated: a login adds one active session with a token no session had
\* and leaves the others as they are; a logout touches no session of another
\* token; an active session stays active until a logout with its own token.
C6_IndependentSessions ==
    [][ /\ (resp'.op = "login" /\ resp'.status = 200 /\ resp' # resp)
              => /\ \A s \in db["session"] : s.token # resp'.issued /\ s \in db'["session"]
                 /\ \E t \in db'["session"] : t.token = resp'.issued /\ t.active
                 /\ Cardinality(db'["session"]) = Cardinality(db["session"]) + 1
        /\ (resp'.op = "logout")
              => \A s \in db["session"] : s.token # resp'.token => s \in db'["session"]
        /\ \A s \in db["session"] : s.active =>
              \/ \E t \in db'["session"] : t.token = s.token /\ t.active
              \/ resp'.op = "logout" /\ resp'.token = s.token ]_vars

\* C7 as stated: logout answers 200, and with no token, with a token of no
\* session or with the token of an inactive session it leaves the store as
\* it is.
C7_LogoutNoOp ==
    [][ (resp'.op = "logout")
           => /\ resp'.status = 200
              /\ ~HasActiveSession(resp'.token) => db' = db ]_vars

\* C8: a login whose e-mail differs from the master address in more than
\* letter case is answered 403, returns no token and leaves the store as it
\* is (no user, no session created or changed).
C8_ForeignLoginRefused ==
    [][ (resp'.op = "login" /\ resp'.email.text # MASTER_ADMIN_EMAIL.text)
           => (resp'.status = 403 /\ resp'.issued = NoToken /\ db' = db) ]_vars

\* A foreign login was refused while a user and a session exist.
C8_Witness ==
    /\ resp.op = "login" /\ resp.status = 403
    /\ resp.email.text # MASTER_ADMIN_EMAIL.text
    /\ db["user"] # {} /\ db["session"] # {}

\* C9: an identifier once absent from a collection stays absent; a delete of
\* a present identifier answers 200 and removes exactly that document, so the
\* identifier is gone; update and delete of a gone identifier answer 404 and
\* leave the store as it is.  Of two deletes in flight the first to reach the
\* store therefore succeeds and the second is answered 404.
C9_GoneStaysGone ==
    [][ /\ \A c \in DOMAIN db : \A i \in 1 .. MaxDocs :
              Gone(c, i) => GoneIn(db', nextId', c, i)
        /\ (Ran /\ resp'.op \in {"admin_update", "admin_delete"} /\ obj_id(resp'.id).ok
              /\ Gone(resp'.coll, obj_id(resp'.id).oid))
              => (resp'.status = 404 /\ db' = db)
        /\ (Ran /\ resp'.op = "admin_delete" /\ obj_id(resp'.id).ok
              /\ Present(resp'.coll, obj_id(resp'.id).oid))
              => /\ resp'.status = 200
                 /\ GoneIn(db', nextId', resp'.coll, obj_id(resp'.id).oid)
                 /\ \A c \in DOMAIN db : \A d \in db[c] :
                       d \in db'[c] \/ (c = resp'.coll /\ d["_id"] = obj_id(resp'.id).oid) ]_vars

\* A delete was answered 404 for an identifier that a page carried: it is
\* assigned, no collection holds it, and no user or session was ever removed.
C9_Witness ==
    /\ resp.op = "admin_delete" /\ resp.status = 404 /\ resp.coll = "schoolpage"
    /\ obj_id(resp.id).oid < nextId
    /\ \A c \in DOMAIN db : \A d \in db[c] : d["_id"] # obj_id(resp.id).oid
    /\ db["user"] # {}
    /\ Cardinality(db["session"]) = nextTok - 1

\* C10 as stated: no response of a route open to everyone carries the token
\* of an active session.
C10_NoTokenDisclosed ==
    (resp.op \in {"public_list", "get_page", "logout"} \/ (resp.op = "login" /\ resp.status # 200))
    => /\ ~HasActiveSession(resp.issued)
       /\ \A i \in DOMAIN resp.items :
             "token" \in DOMAIN resp.items[i] => ~HasActiveSession(resp.items[i].token)

====
